---- MODULE Spec2Model ----
(***************************************************************************)
(* Model of mp_dash_components/helpers/scene.py: the Scene / primitive     *)
(* dataclasses, scene_to_json (asdict followed by remove_defaults) and     *)
(* merge_primitives.                                                       *)
(*                                                                         *)
(* Python values are tagged records so that None, strings, numbers, lists  *)
(* and dicts can be told apart.  Floats are integers in thousandths        *)
(* (Num(1004) is 1.004).  A 3-vector (a list of three floats) is a leaf.   *)
(* A raised TypeError is the value TypeError in place of the result.       *)
(***************************************************************************)
EXTENDS Integers, Sequences, FiniteSets, TLC

VARIABLES primitives, merged, remerged, scene, json

vars == <<primitives, merged, remerged, scene, json>>

(* ------------------------------ bounds -------------------------------- *)
MaxPrims == 3
MaxKeyPrims == 2
MaxSerPrims == 2
MaxDepth == 2

(* --------------------------- Python values ---------------------------- *)
None == [t |-> "None"]
Str(s) == [t |-> "str", s |-> s]
Num(n) == [t |-> "num", n |-> n]
Vec(a, b, c) == [t |-> "vec", x |-> <<a, b, c>>]
List(l) == [t |-> "list", l |-> l]
Dict(d) == [t |-> "dict", d |-> d]
TypeError == [t |-> "TypeError"]
\* the operation has not been called yet
Unset == [t |-> "unset"]

\* bool(v), as used by `if sphere.ellipsoids`, any(...) and `x or None`
Truthy(v) ==
  CASE v.t = "None" -> FALSE
    [] v.t = "str" -> v.s # ""
    [] v.t = "num" -> v.n # 0
    [] v.t = "vec" -> TRUE
    [] v.t = "list" -> Len(v.l) > 0
    [] v.t = "dict" -> DOMAIN v.d # {}
    [] OTHER -> TRUE

(* ----------------------------- dataclasses ---------------------------- *)
Object(cls, f) == [t |-> "obj", cls |-> cls, f |-> f]

Scene(name, contents) == Object("Scene", [name |-> name, contents |-> contents])

Spheres(positions, color, radius, phiStart, phiEnd, ellipsoids) ==
  Object("Spheres", [positions |-> positions, color |-> color, radius |-> radius,
                     phiStart |-> phiStart, phiEnd |-> phiEnd,
                     ellipsoids |-> ellipsoids, type |-> Str("spheres")])

Cylinders(positionPairs, color, radius) ==
  Object("Cylinders", [positionPairs |-> positionPairs, color |-> color,
                       radius |-> radius, type |-> Str("cylinders")])

Cubes(positions, color, width) ==
  Object("Cubes", [positions |-> positions, color |-> color, width |-> width,
                   type |-> Str("spheres")])

Lines(positions, color, lineWidth, scale, dashSize, gapSize) ==
  Object("Lines", [positions |-> positions, color |-> color, lineWidth |-> lineWidth,
                   scale |-> scale, dashSize |-> dashSize, gapSize |-> gapSize,
                   type |-> Str("lines")])

Surface(positions, normals, color, opacity) ==
  Object("Surface", [positions |-> positions, normals |-> normals, color |-> color,
                     opacity |-> opacity, type |-> Str("surface")])

Arrows == Object("Arrows", [type |-> Str("arrows")])

isinstance(p, cls) == p.t = "obj" /\ p.cls = cls

(* --------------------------- string formatting ------------------------ *)
Digit(d) == <<"0", "1", "2", "3", "4", "5", "6", "7", "8", "9">>[d + 1]

RECURSIVE IntStr(_)
IntStr(k) == IF k < 10 THEN Digit(k) ELSE IntStr(k \div 10) \o Digit(k % 10)

Abs(n) == IF n < 0 THEN -n ELSE n

\* |n| thousandths rounded to hundredths; the inputs of the model have no
\* thousandths digit 5, so no tie of the binary value is ever decided here
RoundHundredths(m) == (m + 5) \div 10

\* format(x, ".2f") of the float n/1000: the sign of a negative value is
\* kept even when the digits round to zero ("-0.00")
Fixed2(n) ==
  LET h == RoundHundredths(Abs(n))
  IN  (IF n < 0 THEN "-" ELSE "") \o IntStr(h \div 100) \o "."
        \o Digit((h \div 10) % 10) \o Digit(h % 10)

\* f"{v}": str(v)
FormatStr(v) == IF v.t = "None" THEN "None" ELSE v.s

\* f"{v:.2f}" raises TypeError for None
CanFormat2f(v) == v.t = "num"

sphere_key(p) ==
  FormatStr(p.f.color) \o "_" \o Fixed2(p.f.radius.n) \o "_"
    \o Fixed2(p.f.phiStart.n) \o "_" \o Fixed2(p.f.phiEnd.n)

cylinder_key(p) == FormatStr(p.f.color) \o "_" \o Fixed2(p.f.radius.n)

\* whether building the key of primitive p raises
KeyRaises(p) ==
  \/ isinstance(p, "Spheres")
       /\ ~(CanFormat2f(p.f.radius) /\ CanFormat2f(p.f.phiStart) /\ CanFormat2f(p.f.phiEnd))
  \/ isinstance(p, "Cylinders") /\ ~CanFormat2f(p.f.radius)

(* ---------------------------- merge_primitives ------------------------ *)
\* defaultdict(list)[key].append(p): an insertion-ordered dict, kept as a
\* sequence of [key, members] entries
DictAppend(d, key, p) ==
  IF \E i \in 1..Len(d) : d[i].key = key
  THEN [i \in 1..Len(d) |->
          IF d[i].key = key THEN [d[i] EXCEPT !.members = Append(@, p)] ELSE d[i]]
  ELSE Append(d, [key |-> key, members |-> <<p>>])

\* the first loop, over the first i primitives
RECURSIVE Classify(_, _)
Classify(ps, i) ==
  IF i = 0 THEN [spheres |-> <<>>, cylinders |-> <<>>, remainder |-> <<>>]
  ELSE LET acc == Classify(ps, i - 1)
           primitive == ps[i]
       IN  IF isinstance(primitive, "Spheres")
           THEN [acc EXCEPT !.spheres = DictAppend(@, sphere_key(primitive), primitive)]
           ELSE IF isinstance(primitive, "Cylinders")
           THEN [acc EXCEPT !.cylinders = DictAppend(@, cylinder_key(primitive), primitive)]
           ELSE [acc EXCEPT !.remainder = Append(@, primitive)]

RECURSIVE Flatten(_)
Flatten(ls) == IF ls = <<>> THEN <<>> ELSE Head(ls).l \o Flatten(Tail(ls))

\* list(chain.from_iterable(xs)): raises TypeError on a non-iterable element
ChainFromIterable(xs) ==
  IF \E i \in 1..Len(xs) : xs[i].t # "list" THEN TypeError ELSE List(Flatten(xs))

\* any(xs)
any(xs) == \E i \in 1..Len(xs) : Truthy(xs[i])

\* faulty variant: only the first member's positions are kept
new_positions_first(sphere_list) == List(sphere_list[1].f.positions.l)

new_positions(sphere_list) ==
  ChainFromIterable([i \in 1..Len(sphere_list) |-> sphere_list[i].f.positions])

\* sphere.ellipsoids[k] if sphere.ellipsoids else None
EllipsoidsPart(sphere, k) ==
  IF Truthy(sphere.f.ellipsoids) THEN sphere.f.ellipsoids.d[k] ELSE None

new_ellipsoids_rotations(sphere_list) ==
  ChainFromIterable([i \in 1..Len(sphere_list) |-> EllipsoidsPart(sphere_list[i], "rotations")])

\* faulty variant: the scales are chained over the group in reverse member order
new_ellipsoids_scales_reversed(sphere_list) ==
  ChainFromIterable([i \in 1..Len(sphere_list) |->
                       EllipsoidsPart(sphere_list[Len(sphere_list) + 1 - i], "scales")])

new_ellipsoids_scales(sphere_list) ==
  ChainFromIterable([i \in 1..Len(sphere_list) |-> EllipsoidsPart(sphere_list[i], "scales")])

\* the body of the loop over spheres.items(); TypeError if a chain raises
MergeSpheres(sphere_list) ==
  LET pos == new_positions(sphere_list)
      rot == new_ellipsoids_rotations(sphere_list)
      sca == new_ellipsoids_scales(sphere_list)
  IN  IF TypeError \in {pos, rot, sca} THEN TypeError
      ELSE Spheres(pos, sphere_list[1].f.color, sphere_list[1].f.radius,
                   sphere_list[1].f.phiStart, sphere_list[1].f.phiEnd,
                   IF any(rot.l) THEN Dict([rotations |-> rot, scales |-> sca]) ELSE None)

new_positionPairs(cylinder_list) ==
  ChainFromIterable([i \in 1..Len(cylinder_list) |-> cylinder_list[i].f.positionPairs])

MergeCylinders(cylinder_list) ==
  LET pairs == new_positionPairs(cylinder_list)
  IN  IF pairs = TypeError THEN TypeError
      ELSE Cylinders(pairs, cylinder_list[1].f.color, cylinder_list[1].f.radius)

\* faulty variant: the cylinders are returned before the spheres
Concat3_cylinders_first(new_spheres, new_cylinders, remainder) ==
  new_cylinders \o new_spheres \o remainder

\* new_spheres + new_cylinders + remainder
Concat3(new_spheres, new_cylinders, remainder) == new_spheres \o new_cylinders \o remainder

merge_primitives(ps) ==
  IF \E i \in 1..Len(ps) : KeyRaises(ps[i]) THEN TypeError
  ELSE LET acc == Classify(ps, Len(ps))
           new_spheres == [g \in 1..Len(acc.spheres) |-> MergeSpheres(acc.spheres[g].members)]
           new_cylinders == [g \in 1..Len(acc.cylinders) |-> MergeCylinders(acc.cylinders[g].members)]
       IN  IF \E g \in 1..Len(new_spheres) : new_spheres[g] = TypeError THEN TypeError
           ELSE IF \E g \in 1..Len(new_cylinders) : new_cylinders[g] = TypeError THEN TypeError
           ELSE List(Concat3(new_spheres, new_cylinders, acc.remainder))

(* ------------------------------ scene_to_json ------------------------- *)
\* dataclasses.asdict: dataclass instances become dicts, lists and dicts are
\* copied element by element, everything else is copied as it is
RECURSIVE asdict(_)
asdict(v) ==
  CASE v.t = "obj" -> Dict([k \in DOMAIN v.f |-> asdict(v.f[k])])
    [] v.t = "list" -> List([i \in 1..Len(v.l) |-> asdict(v.l[i])])
    [] v.t = "dict" -> Dict([k \in DOMAIN v.d |-> asdict(v.d[k])])
    [] OTHER -> v

\* faulty variant: pruning by value, a field equal to 0 goes like None
IsNotNoneNorZero(v) == v # None /\ v # Num(0)

\* faulty variant: an empty list is pruned like None
IsNotNoneNorEmptyList(v) == v # None /\ v # List(<<>>)

\* `if v is not None`
IsNotNone(v) == v # None

\* only a value that is itself a dict is descended into
RECURSIVE remove_defaults(_)
remove_defaults(scene_dict) ==
  LET pruned == [k \in DOMAIN scene_dict |->
                   IF scene_dict[k].t = "dict" THEN remove_defaults(scene_dict[k].d)
                   ELSE scene_dict[k]]
      kept == {k \in DOMAIN scene_dict : IsNotNone(pruned[k])}
      trimmed_dict == Dict([k \in kept |-> pruned[k]])
  IN  IF Truthy(trimmed_dict) THEN trimmed_dict ELSE None

scene_to_json(s) == remove_defaults(asdict(s).d)

(* ------------------------------- the inputs --------------------------- *)
\* The caller's primitives are drawn from templates; the i-th primitive of a
\* list carries vectors tagged with i, so that every position, rotation and
\* scale names the primitive it was given to.
Positions(i, n) == List([j \in 1..n |-> Vec(i, j, 0)])

PositionPairs(i, n) == List([j \in 1..n |-> List(<<Vec(i, j, 0), Vec(i, j, 1)>>)])

Ellipsoids(kind, i, n) ==
  CASE kind = "none" -> None
    [] kind = "ok" -> Dict([rotations |-> List([j \in 1..n |-> Vec(i, j, 1)]),
                            scales |-> List([j \in 1..n |-> Vec(i, j, 2)])])
    [] kind = "short" -> Dict([rotations |-> List(<<>>),
                               scales |-> List([j \in 1..n |-> Vec(i, j, 2)])])

SphereTpl(color, radius, phiStart, phiEnd, ell, n) ==
  [cls |-> "Spheres", color |-> color, radius |-> radius, phiStart |-> phiStart,
   phiEnd |-> phiEnd, ell |-> ell, n |-> n]

CylinderTpl(color, radius, n) == [cls |-> "Cylinders", color |-> color, radius |-> radius, n |-> n]

OtherTpl(cls) == [cls |-> cls]

Instantiate(tpl, i) ==
  CASE tpl.cls = "Spheres" ->
         Spheres(Positions(i, tpl.n), tpl.color, tpl.radius, tpl.phiStart, tpl.phiEnd,
                 Ellipsoids(tpl.ell, i, tpl.n))
    [] tpl.cls = "Cylinders" -> Cylinders(PositionPairs(i, tpl.n), tpl.color, tpl.radius)
    [] tpl.cls = "Cubes" -> Cubes(Positions(i, 1), Str("#fff"), None)
    [] tpl.cls = "Lines" -> Lines(Positions(i, 2), None, None, None, None, None)
    [] tpl.cls = "Surface" -> Surface(Positions(i, 1), None, Str("#fff"), Num(500))
    [] tpl.cls = "Arrows" -> Arrows

\* inputs of the merge: spheres as the constructor defaults leave them
\* (phiEnd and ellipsoids None), with phiEnd given, and with ellipsoids given
\* (well formed, or with a rotations list shorter than positions)
MergeInputs ==
  {SphereTpl(c, Num(1000), Num(0), None, "none", 1) : c \in {Str("#fff"), Str("#000")}}
  \cup {SphereTpl(c, Num(1000), Num(0), Num(3142), "none", 1) : c \in {Str("#fff"), Str("#000")}}
  \cup {SphereTpl(c, Num(1000), Num(0), Num(3142), "ok", n) :
          c \in {Str("#fff"), Str("#000")}, n \in 0..2}
  \cup {SphereTpl(Str("#fff"), Num(1004), Num(0), Num(3142), "ok", 1),
        SphereTpl(Str("#fff"), Num(1000), Num(0), Num(3142), "short", 1)}
  \cup {CylinderTpl(c, Num(2000), 1) : c \in {Str("#fff"), Str("#000")}}
  \cup {CylinderTpl(Str("#fff"), Num(2004), 2), CylinderTpl(Str("#fff"), None, 1)}
  \cup {OtherTpl("Cubes"), OtherTpl("Lines")}

\* inputs that differ in the fields of the grouping key only
KeyInputs ==
  {SphereTpl(c, Num(r), Num(s), Num(e), "ok", 1) :
     c \in {None, Str("None"), Str("#fff")}, r \in {1000, 1004, 1006},
     s \in {-1, 0, 1}, e \in {3142, 3148}}
  \cup {CylinderTpl(c, Num(r), 1) :
          c \in {None, Str("None"), Str("#fff")}, r \in {2000, 2004, 2006}}

\* inputs of the serializer
SerInputs ==
  {SphereTpl(Str("#fff"), Num(1000), Num(0), None, "none", 1),
   SphereTpl(None, None, Num(0), Num(3142), "ok", 1),
   OtherTpl("Lines"), OtherTpl("Surface"), OtherTpl("Arrows")}

Names == {"", "scene"}

\* nesting depth of a scene; a scene nested in a list is its last element
RECURSIVE Depth(_)
Depth(s) ==
  IF isinstance(s.f.contents, "Scene") THEN 1 + Depth(s.f.contents)
  ELSE IF Len(s.f.contents.l) > 0 /\ isinstance(s.f.contents.l[Len(s.f.contents.l)], "Scene")
  THEN 1 + Depth(s.f.contents.l[Len(s.f.contents.l)])
  ELSE 1

(* ------------------------------ the actions --------------------------- *)
Init ==
  /\ primitives = <<>>
  /\ merged = Unset
  /\ remerged = Unset
  /\ scene = Unset
  /\ json = Unset

\* the caller constructs one more primitive of its list
AddPrimitive(tpl, max) ==
  /\ Len(primitives) < max
  /\ merged = Unset
  /\ scene = Unset
  /\ primitives' = Append(primitives, Instantiate(tpl, Len(primitives) + 1))
  /\ UNCHANGED <<merged, remerged, scene, json>>

\* merge_primitives(primitives)
Merge ==
  /\ merged = Unset
  /\ merged' = merge_primitives(primitives)
  /\ UNCHANGED <<primitives, remerged, scene, json>>

\* merge_primitives applied to the list a first call returned
Remerge ==
  /\ merged.t = "list"
  /\ remerged = Unset
  /\ remerged' = merge_primitives(merged.l)
  /\ UNCHANGED <<primitives, merged, scene, json>>

\* Scene(name, contents=primitives)
NewScene(name) ==
  /\ scene = Unset
  /\ scene' = Scene(Str(name), List(primitives))
  /\ UNCHANGED <<primitives, merged, remerged, json>>

\* Scene(name, contents=primitives + [scene]): a scene nested in a list
NestInList(name) ==
  /\ scene # Unset
  /\ json = Unset
  /\ Depth(scene) < MaxDepth
  /\ scene' = Scene(Str(name), List(Append(primitives, scene)))
  /\ UNCHANGED <<primitives, merged, remerged, json>>

\* Scene(name, contents=scene): "or can be another Scene"
NestDirect(name) ==
  /\ scene # Unset
  /\ json = Unset
  /\ Depth(scene) < MaxDepth
  /\ scene' = Scene(Str(name), scene)
  /\ UNCHANGED <<primitives, merged, remerged, json>>

\* scene_to_json(scene)
Serialize ==
  /\ scene # Unset
  /\ json = Unset
  /\ json' = scene_to_json(scene)
  /\ UNCHANGED <<primitives, merged, remerged, scene>>

\* scene_to_json handed a primitive itself: asdict takes any dataclass
SerializePrimitive ==
  /\ scene = Unset
  /\ json = Unset
  /\ Len(primitives) >= 1
  /\ scene' = primitives[Len(primitives)]
  /\ json' = scene_to_json(primitives[Len(primitives)])
  /\ UNCHANGED <<primitives, merged, remerged>>

Next ==
  \/ \E tpl \in MergeInputs : AddPrimitive(tpl, MaxPrims)
  \/ Merge
  \/ Remerge

Spec == Init /\ [][Next]_vars

NextKey ==
  \/ \E tpl \in KeyInputs : AddPrimitive(tpl, MaxKeyPrims)
  \/ Merge
  \/ Remerge

SpecKey == Init /\ [][NextKey]_vars

NextSer ==
  \/ \E tpl \in SerInputs : AddPrimitive(tpl, MaxSerPrims)
  \/ \E name \in Names : NewScene(name)
  \/ \E name \in Names : NestInList(name)
  \/ \E name \in Names : NestDirect(name)
  \/ Serialize
  \/ SerializePrimitive

SpecSer == Init /\ [][NextSer]_vars

(* ====================================================================== *)
(*                    Properties of scene_to_json                         *)
(* ====================================================================== *)
Serialized == json # Unset

\* the dict nodes of an output structure, at any depth
RECURSIVE Nodes(_)
Nodes(v) ==
  CASE v.t = "dict" -> {v} \cup UNION {Nodes(v.d[k]) : k \in DOMAIN v.d}
    [] v.t = "list" -> UNION {Nodes(v.l[i]) : i \in 1..Len(v.l)}
    [] OTHER -> {}

\* a node is a primitive when it carries a type tag, a scene when it has a name
PrimitiveNodes(v) == {n \in Nodes(v) : "type" \in DOMAIN n.d}
SceneNodes(v) == {n \in Nodes(v) : "name" \in DOMAIN n.d}

\* the primitives of the scene tree, at any depth
RECURSIVE PrimitivesOf(_)
PrimitivesOf(v) ==
  CASE v.t = "obj" /\ v.cls = "Scene" -> PrimitivesOf(v.f.contents)
    [] v.t = "obj" -> {v}
    [] v.t = "list" -> UNION {PrimitivesOf(v.l[i]) : i \in 1..Len(v.l)}
    [] OTHER -> {}

\* C1: after scene_to_json, no primitive of the output, directly in the
\* contents list or in a nested scene, has a key whose value is null.
C1_NoNullFieldInPrimitives ==
  Serialized => \A n \in PrimitiveNodes(json) : \A k \in DOMAIN n.d : n.d[k] # None

\* C2 as stated: a scene with empty contents serializes to its name only, and
\* a scene node of the output has the contents key only when it is non-empty.
C2_EmptySceneHasNameOnly ==
  Serialized =>
    /\ (isinstance(scene, "Scene") /\ scene.f.contents = List(<<>>))
         => (json.t = "dict" /\ DOMAIN json.d = {"name"})
    /\ \A n \in SceneNodes(json) :
         "contents" \in DOMAIN n.d => n.d.contents # List(<<>>)

\* C2 as the code has it: a scene with empty contents serializes to exactly
\* the keys name and contents, contents being the empty list, and every scene
\* node of the output has the contents key, empty or not.
C2_EmptySceneKeepsContents ==
  Serialized =>
    /\ (isinstance(scene, "Scene") /\ scene.f.contents = List(<<>>))
         => json = Dict([name |-> scene.f.name, contents |-> List(<<>>)])
    /\ \A n \in SceneNodes(json) : DOMAIN n.d = {"name", "contents"}

C2_Witness == Serialized /\ isinstance(scene, "Scene") /\ scene.f.contents = List(<<>>)

\* "empty": null, or an object with no key left after recursive pruning
RECURSIVE IsEmpty(_)
IsEmpty(v) == v = None \/ (v.t = "dict" /\ \A k \in DOMAIN v.d : IsEmpty(v.d[k]))

\* y is x with nothing but empty values removed
RECURSIVE PrunedOnlyOfEmpty(_, _)
PrunedOnlyOfEmpty(x, y) ==
  CASE x.t = "dict" ->
         /\ y.t = "dict"
         /\ DOMAIN y.d \subseteq DOMAIN x.d
         /\ \A k \in DOMAIN x.d \ DOMAIN y.d : IsEmpty(x.d[k])
         /\ \A k \in DOMAIN y.d : PrunedOnlyOfEmpty(x.d[k], y.d[k])
    [] x.t = "list" ->
         /\ y.t = "list"
         /\ Len(y.l) = Len(x.l)
         /\ \A i \in 1..Len(x.l) : PrunedOnlyOfEmpty(x.l[i], y.l[i])
    [] OTHER -> y = x

\* the fields of the scene's primitives that hold the literal 0
ZeroFields(p) == {k \in DOMAIN p.f : p.f[k] = Num(0)}

\* C9: pruning goes by null-ness: a key is removed only when its value is null
\* or an object left without keys; a field holding 0 is kept as 0, and every
\* primitive's type tag is in the output with the variant's fixed value.
C9_PruningByNullness ==
  Serialized =>
    /\ PrunedOnlyOfEmpty(asdict(scene), json)
    /\ \A p \in PrimitivesOf(scene) :
         \E n \in PrimitiveNodes(json) :
           /\ PrunedOnlyOfEmpty(asdict(p), n)
           /\ n.d.type = p.f.type
           /\ \A k \in ZeroFields(p) : k \in DOMAIN n.d /\ n.d[k] = Num(0)

C9_Witness ==
  /\ Serialized
  /\ \E p \in PrimitivesOf(scene) : ZeroFields(p) # {}
  /\ \E n \in PrimitiveNodes(json) : "phiStart" \in DOMAIN n.d /\ n.d.phiStart = Num(0)
  /\ isinstance(scene, "Scene")
  /\ scene.f.contents.t = "list" /\ Len(scene.f.contents.l) >= 1

(* ====================================================================== *)
(*                    Properties of merge_primitives                      *)
(* ====================================================================== *)
Returned == merged.t = "list"

OfClass(ps, cls) == SelectSeq(ps, LAMBDA p : isinstance(p, cls))

Others(ps) == SelectSeq(ps, LAMBDA p : ~isinstance(p, "Spheres") /\ ~isinstance(p, "Cylinders"))

\* the concatenation of field k over a sequence of primitives
FieldConcat(ps, k) == Flatten([i \in 1..Len(ps) |-> ps[i].f[k]])

Count(x, xs) == Cardinality({i \in 1..Len(xs) : xs[i] = x})

SameMultiset(xs, ys) ==
  /\ Len(xs) = Len(ys)
  /\ \A i \in 1..Len(xs) : Count(xs[i], xs) = Count(xs[i], ys)

\* a float rounded to 2 decimals, as a number of hundredths
Round2(n) == IF n < 0 THEN -RoundHundredths(-n) ELSE RoundHundredths(n)

\* the grouping keys as the specification states them
SameSphereGroup(p, q) ==
  /\ p.f.color = q.f.color
  /\ Round2(p.f.radius.n) = Round2(q.f.radius.n)
  /\ Round2(p.f.phiStart.n) = Round2(q.f.phiStart.n)
  /\ Round2(p.f.phiEnd.n) = Round2(q.f.phiEnd.n)

SameCylinderGroup(p, q) ==
  p.f.color = q.f.color /\ Round2(p.f.radius.n) = Round2(q.f.radius.n)

\* the groups as the code forms them: same class and same key string
KeyOf(p) == IF isinstance(p, "Spheres") THEN sphere_key(p) ELSE cylinder_key(p)

\* indices of the first member of each group of class cls, in input order
Leaders(cls) ==
  SelectSeq([i \in 1..Len(primitives) |-> i],
            LAMBDA i : /\ isinstance(primitives[i], cls)
                       /\ \A j \in 1..(i - 1) :
                            ~(isinstance(primitives[j], cls)
                              /\ KeyOf(primitives[j]) = KeyOf(primitives[i])))

\* the members of the group led by primitives[i], in input order
Members(i) ==
  SelectSeq(primitives,
            LAMBDA p : isinstance(p, primitives[i].cls) /\ KeyOf(p) = KeyOf(primitives[i]))

\* primitives i and j ended up in the same output primitive: one output
\* primitive holds a position (pair) of each; positions are tagged by index
Holds(out, k, i) == \E a \in 1..Len(out.f[k].l) : out.f[k].l[a] = primitives[i].f[k].l[1]

MergedTogether(k, i, j) ==
  \E o \in 1..Len(merged.l) :
    /\ isinstance(merged.l[o], primitives[i].cls)
    /\ Holds(merged.l[o], k, i)
    /\ Holds(merged.l[o], k, j)

\* C3: a list of Spheres of one color and one radius, phiStart, phiEnd and
\* ellipsoids left at the constructor defaults, merges into exactly one
\* Spheres holding the members' positions in input order.
C3Case ==
  /\ merged # Unset
  /\ Len(primitives) >= 1
  /\ \A i \in 1..Len(primitives) :
       /\ isinstance(primitives[i], "Spheres")
       /\ primitives[i].f.color.t = "str"
       /\ primitives[i].f.radius.t = "num"
       /\ primitives[i].f.color = primitives[1].f.color
       /\ primitives[i].f.radius = primitives[1].f.radius
       /\ primitives[i].f.phiStart = Num(0)
       /\ primitives[i].f.phiEnd = None
       /\ primitives[i].f.ellipsoids = None

C3_DefaultSpheresMergeToOne ==
  C3Case =>
    merged = List(<<Spheres(List(FieldConcat(primitives, "positions")),
                            primitives[1].f.color, primitives[1].f.radius,
                            Num(0), None, None)>>)

\* the rotations (k = "rotations") or scales a member contributes when the
\* members lacking ellipsoids are null-filled, one null per position
NullFilled(m, k) ==
  IF m.f.ellipsoids # None THEN m.f.ellipsoids.d[k].l
  ELSE [a \in 1..Len(m.f.positions.l) |-> None]

RECURSIVE SeqConcat(_)
SeqConcat(ss) == IF ss = <<>> THEN <<>> ELSE Head(ss) \o SeqConcat(Tail(ss))

ExpectedEllipsoids(ms) ==
  LET rot == SeqConcat([a \in 1..Len(ms) |-> NullFilled(ms[a], "rotations")])
      sca == SeqConcat([a \in 1..Len(ms) |-> NullFilled(ms[a], "scales")])
  IN  IF \E a \in 1..Len(rot) : rot[a] # None
      THEN Dict([rotations |-> List(rot), scales |-> List(sca)])
      ELSE None

\* C4: when some Spheres of the list lack ellipsoids, the merge returns, each
\* such member contributes null-filled rotations and scales, and the merged
\* ellipsoids is null exactly when the concatenation has no non-null entry.
C4Case ==
  /\ merged # Unset
  /\ \A i \in 1..Len(primitives) : ~KeyRaises(primitives[i])
  /\ \E i \in 1..Len(primitives) :
       isinstance(primitives[i], "Spheres") /\ primitives[i].f.ellipsoids = None

C4_MissingEllipsoidsNullFilled ==
  C4Case =>
    /\ Returned
    /\ LET ls == Leaders("Spheres")
       IN  \A g \in 1..Len(ls) :
             /\ g <= Len(merged.l)
             /\ isinstance(merged.l[g], "Spheres")
             /\ merged.l[g].f.ellipsoids = ExpectedEllipsoids(Members(ls[g]))

\* C5: merging the result of a merge returns, and returns the same list.
C5_MergeIdempotent == Returned => (remerged # Unset => remerged = merged)

\* C6: two Spheres are merged together iff their colors are equal (None
\* differing from every string) and radius, phiStart, phiEnd agree rounded to
\* 2 decimals as numbers; two Cylinders iff color and rounded radius agree.
C6_GroupingKey ==
  Returned =>
    \A i, j \in 1..Len(primitives) :
      /\ (isinstance(primitives[i], "Spheres") /\ isinstance(primitives[j], "Spheres"))
           => (MergedTogether("positions", i, j)
                 <=> SameSphereGroup(primitives[i], primitives[j]))
      /\ (isinstance(primitives[i], "Cylinders") /\ isinstance(primitives[j], "Cylinders"))
           => (MergedTogether("positionPairs", i, j)
                 <=> SameCylinderGroup(primitives[i], primitives[j]))

\* C7: the positions of the output Spheres are, as a multiset, those of the
\* input Spheres, and likewise the position pairs of the Cylinders.
C7_MergeConservation ==
  Returned =>
    /\ SameMultiset(FieldConcat(OfClass(primitives, "Spheres"), "positions"),
                    FieldConcat(OfClass(merged.l, "Spheres"), "positions"))
    /\ SameMultiset(FieldConcat(OfClass(primitives, "Cylinders"), "positionPairs"),
                    FieldConcat(OfClass(merged.l, "Cylinders"), "positionPairs"))

C7_Witness ==
  /\ Returned
  /\ Len(OfClass(merged.l, "Spheres")) >= 1
  /\ Len(OfClass(merged.l, "Spheres")) < Len(OfClass(primitives, "Spheres"))
  /\ Len(OfClass(merged.l, "Cylinders")) >= 1

\* C8: the result is the Spheres groups in first-seen order, then the
\* Cylinders groups in first-seen order, then the other primitives unchanged
\* in input order; each group holds its members' positions in input order.
C8_OutputOrder ==
  Returned =>
    LET ls == Leaders("Spheres")
        lc == Leaders("Cylinders")
        rest == Others(primitives)
    IN  /\ Len(merged.l) = Len(ls) + Len(lc) + Len(rest)
        /\ \A g \in 1..Len(ls) :
             /\ isinstance(merged.l[g], "Spheres")
             /\ merged.l[g].f.positions.l = FieldConcat(Members(ls[g]), "positions")
             /\ merged.l[g].f.color = primitives[ls[g]].f.color
             /\ merged.l[g].f.radius = primitives[ls[g]].f.radius
             /\ merged.l[g].f.phiStart = primitives[ls[g]].f.phiStart
             /\ merged.l[g].f.phiEnd = primitives[ls[g]].f.phiEnd
        /\ \A g \in 1..Len(lc) :
             /\ isinstance(merged.l[Len(ls) + g], "Cylinders")
             /\ merged.l[Len(ls) + g].f.positionPairs.l
                  = FieldConcat(Members(lc[g]), "positionPairs")
             /\ merged.l[Len(ls) + g].f.color = primitives[lc[g]].f.color
             /\ merged.l[Len(ls) + g].f.radius = primitives[lc[g]].f.radius
        /\ \A r \in 1..Len(rest) : merged.l[Len(ls) + Len(lc) + r] = rest[r]

\* a cylinder leads the input, two Spheres of different groups follow it, and
\* the output has the two Spheres groups first and the Cylinders last
C8_Witness ==
  /\ Returned
  /\ Len(primitives) = 3
  /\ isinstance(primitives[1], "Cylinders")
  /\ Leaders("Spheres") = <<2, 3>>
  /\ isinstance(merged.l[1], "Spheres")
  /\ isinstance(merged.l[3], "Cylinders")

\* the input sphere a tagged vector was given to, and its place there
Owner(v) == <<v.x[1], v.x[2]>>

WellFormedEllipsoids(p) ==
  p.f.ellipsoids # None =>
    /\ Len(p.f.ellipsoids.d.rotations.l) = Len(p.f.positions.l)
    /\ Len(p.f.ellipsoids.d.scales.l) = Len(p.f.positions.l)

\* C10: if every input Spheres carrying ellipsoids has rotations and scales
\* as long as its positions, every output Spheres with non-null ellipsoids
\* has them as long as its positions, the i-th rotation and scale being those
\* of the input sphere of the i-th position.
C10_EllipsoidAlignment ==
  (Returned /\ \A i \in 1..Len(primitives) :
                 isinstance(primitives[i], "Spheres") => WellFormedEllipsoids(primitives[i]))
  => \A o \in 1..Len(merged.l) :
       (isinstance(merged.l[o], "Spheres") /\ merged.l[o].f.ellipsoids # None) =>
         LET pos == merged.l[o].f.positions.l
             rot == merged.l[o].f.ellipsoids.d.rotations.l
             sca == merged.l[o].f.ellipsoids.d.scales.l
         IN  /\ Len(rot) = Len(pos)
             /\ Len(sca) = Len(pos)
             /\ \A a \in 1..Len(pos) :
                  Owner(rot[a]) = Owner(pos[a]) /\ Owner(sca[a]) = Owner(pos[a])

C10_Witness ==
  /\ Returned
  /\ \A i \in 1..Len(primitives) :
       isinstance(primitives[i], "Spheres") => WellFormedEllipsoids(primitives[i])
  /\ \E o \in 1..Len(merged.l) :
       /\ isinstance(merged.l[o], "Spheres")
       /\ merged.l[o].f.ellipsoids # None
       /\ Len(merged.l[o].f.positions.l) >= 3

====
